---------------------------- MODULE Spec2Model ----------------------------
(***************************************************************************)
(* Boeffla touchkey control (drivers/leds/boeffla_touchkey_control.c).     *)
(*                                                                         *)
(* The driver arbitrates the touch-key backlight between display touches,  *)
(* touch-key presses, the framebuffer unblank notification, the sysfs      *)
(* attributes btkc_mode / btkc_timeout and the hook of the leds-qpnp       *)
(* driver.  One delayed work item, led_work, switches the LED off later.   *)
(*                                                                         *)
(* Every exported function, sysfs store and notifier callback is one       *)
(* action.  The delayed work runs on a kernel worker, so its callback      *)
(* led_work_func is three steps with a position (work_pc): the worker      *)
(* takes the expired work off the timer, line 92 switches the LED off,     *)
(* line 93 calls cancel_delayed_work on led_work itself.                   *)
(*                                                                         *)
(* Spec runs the entry points one at a time.  The driver takes no lock, so *)
(* SpecConc runs the touch functions and the sysfs stores statement by     *)
(* statement, each on a thread of its own (touch_pc, store_pc).            *)
(***************************************************************************)
EXTENDS Integers, Sequences, FiniteSets, TLC

VARIABLES
    btkc_mode,          \* int btkc_mode                      (line 72)
    btkc_timeout,       \* int btkc_timeout                   (line 75)
    touched,            \* int touched                        (line 77)
    led_work,           \* DECLARE_DELAYED_WORK(led_work, ..) (line 80):
                        \*   the delays (ms) of the armed timers of the item
    work_pc,            \* position of the worker inside led_work_func
    button_backlight,   \* last argument of qpnp_boeffla_set_button_backlight
    offs,               \* LED_OFF commands of led_work_func since the last call
    call,               \* the last entry point called, its arguments and result
    exit_pc,            \* position of module unload inside btk_control_exit
    touch_pc,           \* position of the thread inside a touch function
    store_pc,           \* position of the thread inside a sysfs store
    store_val           \* unsigned int val of the sysfs store that runs

\* positions of the threads that run statement by statement
threads == <<touch_pc, store_pc, store_val>>

vars == <<btkc_mode, btkc_timeout, touched, led_work, work_pc,
          button_backlight, offs, call, exit_pc, touch_pc, store_pc,
          store_val>>

-----------------------------------------------------------------------------
(* Constants of include/linux/boeffla_touchkey_control.h and of the kernel *)

MODE_TOUCHKEY_DISP == 0
MODE_TOUCHKEY_ONLY == 1
MODE_OFF == 2

TIMEOUT_DEFAULT == 0
TIMEOUT_MIN == 0
TIMEOUT_MAX == 30000

LED_OFF == 0
LED_ON == 1

EPERM == 1
EINVAL == 22

FB_EVENT_BLANK == 9
FB_BLANK_UNBLANK == 0

\* the backlight has received no command yet
LED_UNSET == 0 - 1

-----------------------------------------------------------------------------
(* Inputs *)

\* how many legacy second values (1..MaxSecs) and their millisecond
\* counterparts the writes to btkc_timeout are drawn from
MaxSecs == 2

\* text written to a sysfs attribute: a decimal int, or not a number
NotANumber == [numeric |-> FALSE, val |-> 0]
Num(v) == [numeric |-> TRUE, val |-> v]

ModeBufs == {Num(v) : v \in (0 - 1) .. 3} \cup {NotANumber}

TimeoutVals ==
    {0 - 1, 0, 5, 30, 31, 500, 999, 1000, 5000, TIMEOUT_MAX, TIMEOUT_MAX + 1}
        \cup (1 .. MaxSecs) \cup {s * 1000 : s \in 1 .. MaxSecs}

TimeoutBufs == {Num(v) : v \in TimeoutVals} \cup {NotANumber}

\* the writes to btkc_timeout that interleave with other calls: rejected,
\* ROM controlled, legacy seconds, milliseconds
ConcTimeoutBufs == {Num(v) : v \in {0 - 1, 0, 5, 31, 5000}}

\* values the leds-qpnp driver asks for
LedVals == {LED_OFF, LED_ON}

\* fb notifier: events, and *blank (NoData: evdata or evdata->data is NULL)
NoData == 0 - 1
FbEvents == {FB_EVENT_BLANK, 16}
FbBlanks == {NoData, FB_BLANK_UNBLANK, 4}

-----------------------------------------------------------------------------
(* Kernel primitives *)

\* kstrtoint(buf, 10, &val): 0 and the value, or -EINVAL
kstrtoint(buf) ==
    IF buf.numeric THEN [ret |-> 0, val |-> buf.val]
                   ELSE [ret |-> 0 - EINVAL, val |-> 0]

\* val is declared unsigned int: a negative int converts to a value above
\* INT_MAX, so against a constant c in 0..INT_MAX
\*   val >= c  is  v < 0 \/ v >= c     and     val <= c  is  v >= 0 /\ v <= c
UnsignedGE(v, c) == v < 0 \/ v >= c

\* an unsigned comparison done on the signed value
UnsignedLE_signed(v, c) == v <= c

UnsignedLE(v, c) == v >= 0 /\ v <= c

\* a cancel that leaves the pending item on its timer
cancel_delayed_work_noop(w) == w

\* cancel_delayed_work(&led_work): a pending item is taken off its timer;
\* a callback that is already running is not waited for
cancel_delayed_work(w) == << >>

\* a schedule that arms nothing
schedule_delayed_work_noop(w, delay) == w

\* schedule_delayed_work(&led_work, delay): arms the timer unless the item
\* is pending already (test_and_set of the PENDING bit)
schedule_delayed_work(w, delay) ==
    IF w = << >> THEN <<delay>> ELSE w

\* what a call did with led_work
NoSched == "none"
Cancelled == "cancel"
Armed == "cancel+arm"

\* record of a call of an entry point: the function, its arguments a and b,
\* the value it returned, the command it sent to the backlight (LED_UNSET:
\* none), what it did with led_work, and what it found on entry: the number
\* of armed timers (pend), the backlight (led) and the position of the
\* worker (run).  tick alternates, so that call changes with every call.
Call(fn, a, b, ret, cmd, sched) ==
    [fn |-> fn, a |-> a, b |-> b, ret |-> ret, cmd |-> cmd, sched |-> sched,
     pend |-> Len(led_work), led |-> button_backlight, run |-> work_pc,
     tick |-> 1 - call.tick]

\* the text of a sysfs write as arguments of a call: numeric or not, value
BufA(buf) == IF buf.numeric THEN 1 ELSE 0

-----------------------------------------------------------------------------
Init ==
    /\ btkc_mode = MODE_TOUCHKEY_ONLY
    /\ btkc_timeout = TIMEOUT_DEFAULT
    /\ touched = 0
    /\ led_work = << >>
    /\ work_pc = "idle"
    /\ button_backlight = LED_UNSET
    /\ offs = 0
    /\ call = [fn |-> "btk_control_init", a |-> 0, b |-> 0, ret |-> 0,
               cmd |-> LED_UNSET, sched |-> NoSched, pend |-> 0,
               led |-> LED_UNSET, run |-> "idle", tick |-> 0]
    /\ exit_pc = "loaded"
    /\ touch_pc = "idle"
    /\ store_pc = "idle"
    /\ store_val = 0

-----------------------------------------------------------------------------
(* The delayed work *)

\* the delay of led_work elapses and a worker starts led_work_func; the
\* PENDING bit is cleared before the callback runs, and a work item never
\* runs on two workers at once
led_work_start ==
    /\ led_work # << >>
    /\ work_pc = "idle"
    /\ led_work' = Tail(led_work)
    /\ work_pc' = "line92"
    /\ UNCHANGED <<btkc_mode, btkc_timeout, touched, button_backlight,
                   offs, call>>
    /\ UNCHANGED <<exit_pc, threads>>

\* line 92: qpnp_boeffla_set_button_backlight(LED_OFF)
led_work_off ==
    /\ work_pc = "line92"
    /\ button_backlight' = LED_OFF
    /\ offs' = offs + 1
    /\ work_pc' = "line93"
    /\ UNCHANGED <<btkc_mode, btkc_timeout, touched, led_work, call>>
    /\ UNCHANGED <<exit_pc, threads>>

\* line 93: cancel_delayed_work(&led_work), then the callback returns
led_work_cancel ==
    /\ work_pc = "line93"
    /\ led_work' = cancel_delayed_work(led_work)
    /\ work_pc' = "idle"
    /\ UNCHANGED <<btkc_mode, btkc_timeout, touched, button_backlight,
                   offs, call>>
    /\ UNCHANGED <<exit_pc, threads>>

-----------------------------------------------------------------------------
(* Framebuffer notifier *)

\* a notifier that switches the LED off but leaves the timer armed
fb_notifier_callback_nocancel ==
    /\ exit_pc # "unloaded"
    /\ \E event \in FbEvents, blank \in FbBlanks :
        /\ IF blank # NoData /\ event = FB_EVENT_BLANK
                /\ blank = FB_BLANK_UNBLANK
           THEN /\ button_backlight' = LED_OFF
                /\ call' = Call("fb_notifier_callback", event, blank, 0,
                                LED_OFF, Cancelled)
           ELSE /\ UNCHANGED button_backlight
                /\ call' = Call("fb_notifier_callback", event, blank, 0,
                                LED_UNSET, NoSched)
        /\ offs' = 0
        /\ UNCHANGED <<btkc_mode, btkc_timeout, touched, work_pc, led_work>>
    /\ UNCHANGED <<exit_pc, threads>>

fb_notifier_callback ==
    /\ exit_pc # "unloaded"
    /\ \E event \in FbEvents, blank \in FbBlanks :
        /\ IF blank # NoData /\ event = FB_EVENT_BLANK
                /\ blank = FB_BLANK_UNBLANK
           THEN /\ button_backlight' = LED_OFF
                /\ led_work' = cancel_delayed_work(led_work)
                /\ call' = Call("fb_notifier_callback", event, blank, 0,
                                LED_OFF, Cancelled)
           ELSE /\ UNCHANGED <<button_backlight, led_work>>
                /\ call' = Call("fb_notifier_callback", event, blank, 0,
                                LED_UNSET, NoSched)
        /\ offs' = 0
        /\ UNCHANGED <<btkc_mode, btkc_timeout, touched, work_pc>>
    /\ UNCHANGED <<exit_pc, threads>>

-----------------------------------------------------------------------------
(* Exported functions *)

\* a touch start that lights the LED in every mode
btkc_touch_start_any_mode ==
    /\ exit_pc # "unloaded"
    /\ touched' = 1
    /\ button_backlight' = LED_ON
    /\ led_work' = cancel_delayed_work(led_work)
    /\ call' = Call("btkc_touch_start", 0, 0, 0, LED_ON, Cancelled)
    /\ offs' = 0
    /\ UNCHANGED <<btkc_mode, btkc_timeout, work_pc>>
    /\ UNCHANGED <<exit_pc, threads>>

btkc_touch_start ==
    /\ exit_pc # "unloaded"
    /\ touched' = 1
    /\ IF btkc_mode = MODE_TOUCHKEY_DISP
       THEN /\ button_backlight' = LED_ON
            /\ led_work' = cancel_delayed_work(led_work)
            /\ call' = Call("btkc_touch_start", 0, 0, 0, LED_ON, Cancelled)
       ELSE /\ UNCHANGED <<button_backlight, led_work>>
            /\ call' = Call("btkc_touch_start", 0, 0, 0, LED_UNSET, NoSched)
    /\ offs' = 0
    /\ UNCHANGED <<btkc_mode, btkc_timeout, work_pc>>
    /\ UNCHANGED <<exit_pc, threads>>

\* a touch stop that queues a further timer next to the one that is armed
btkc_touch_stop_requeue ==
    /\ exit_pc # "unloaded"
    /\ touched' = 0
    /\ IF btkc_mode = MODE_TOUCHKEY_DISP
       THEN /\ led_work' = Append(led_work, btkc_timeout)
            /\ call' = Call("btkc_touch_stop", 0, 0, 0, LED_UNSET, Armed)
       ELSE /\ UNCHANGED led_work
            /\ call' = Call("btkc_touch_stop", 0, 0, 0, LED_UNSET, NoSched)
    /\ offs' = 0
    /\ UNCHANGED <<btkc_mode, btkc_timeout, work_pc, button_backlight>>
    /\ UNCHANGED <<exit_pc, threads>>

btkc_touch_stop ==
    /\ exit_pc # "unloaded"
    /\ touched' = 0
    /\ IF btkc_mode = MODE_TOUCHKEY_DISP
       THEN /\ led_work' = schedule_delayed_work(
                               cancel_delayed_work(led_work), btkc_timeout)
            /\ call' = Call("btkc_touch_stop", 0, 0, 0, LED_UNSET, Armed)
       ELSE /\ UNCHANGED led_work
            /\ call' = Call("btkc_touch_stop", 0, 0, 0, LED_UNSET, NoSched)
    /\ offs' = 0
    /\ UNCHANGED <<btkc_mode, btkc_timeout, work_pc, button_backlight>>
    /\ UNCHANGED <<exit_pc, threads>>

\* a button condition that forgets the kernel controlled timeout
button_lights_any_timeout ==
    btkc_mode = MODE_TOUCHKEY_DISP \/ btkc_mode = MODE_TOUCHKEY_ONLY

\* a button condition that asks for the mode on one side only
button_lights_no_mode ==
    btkc_mode = MODE_TOUCHKEY_DISP \/ btkc_timeout # 0

\* lines 162-163: does a touch button press light the LED
button_lights ==
    \/ btkc_mode = MODE_TOUCHKEY_DISP
    \/ (btkc_mode = MODE_TOUCHKEY_ONLY /\ btkc_timeout # 0)

btkc_touch_button ==
    /\ exit_pc # "unloaded"
    /\ IF button_lights
       THEN /\ button_backlight' = LED_ON
            /\ led_work' = schedule_delayed_work(
                               cancel_delayed_work(led_work), btkc_timeout)
            /\ call' = Call("btkc_touch_button", 0, 0, 0, LED_ON, Armed)
       ELSE /\ UNCHANGED <<button_backlight, led_work>>
            /\ call' = Call("btkc_touch_button", 0, 0, 0, LED_UNSET, NoSched)
    /\ offs' = 0
    /\ UNCHANGED <<btkc_mode, btkc_timeout, touched, work_pc>>
    /\ UNCHANGED <<exit_pc, threads>>

\* a hook that looks at the timeout only
led_set_result_any_mode(val) ==
    IF btkc_timeout # 0 THEN 0 - EPERM ELSE val

\* the value btkc_led_set(val) returns in the current state
led_set_result(val) ==
    IF \/ btkc_mode # MODE_TOUCHKEY_ONLY
       \/ (btkc_mode = MODE_TOUCHKEY_ONLY /\ btkc_timeout # 0)
    THEN 0 - EPERM
    ELSE val

btkc_led_set ==
    /\ exit_pc # "unloaded"
    /\ \E val \in LedVals :
        /\ call' = Call("btkc_led_set", val, 0, led_set_result(val),
                        LED_UNSET, NoSched)
        /\ offs' = 0
        /\ UNCHANGED <<btkc_mode, btkc_timeout, touched, led_work, work_pc,
                       button_backlight>>
    /\ UNCHANGED <<exit_pc, threads>>

-----------------------------------------------------------------------------
(* sysfs *)

\* does btkc_mode_store accept the parsed value
mode_valid(val) ==
    UnsignedGE(val, MODE_TOUCHKEY_DISP) /\ UnsignedLE(val, MODE_OFF)

\* a store that resets the LED only when the mode changes
btkc_mode_store_on_change ==
    /\ exit_pc = "loaded"
    /\ \E buf \in ModeBufs :
        LET r == kstrtoint(buf) IN
        /\ IF r.ret = 0 /\ mode_valid(r.val) /\ r.val # btkc_mode
           THEN /\ btkc_mode' = r.val
                /\ led_work' = cancel_delayed_work(led_work)
                /\ button_backlight' = LED_OFF
                /\ call' = Call("btkc_mode_store", BufA(buf), buf.val, r.ret,
                                LED_OFF, Cancelled)
           ELSE /\ UNCHANGED <<btkc_mode, led_work, button_backlight>>
                /\ call' = Call("btkc_mode_store", BufA(buf), buf.val, r.ret,
                                LED_UNSET, NoSched)
        /\ offs' = 0
        /\ UNCHANGED <<btkc_timeout, touched, work_pc>>
    /\ UNCHANGED <<exit_pc, threads>>

btkc_mode_store ==
    /\ exit_pc = "loaded"
    /\ \E buf \in ModeBufs :
        LET r == kstrtoint(buf) IN
        /\ IF r.ret = 0 /\ mode_valid(r.val)
           THEN /\ btkc_mode' = r.val
                /\ led_work' = cancel_delayed_work(led_work)
                /\ button_backlight' = LED_OFF
                /\ call' = Call("btkc_mode_store", BufA(buf), buf.val, r.ret,
                                LED_OFF, Cancelled)
           ELSE /\ UNCHANGED <<btkc_mode, led_work, button_backlight>>
                /\ call' = Call("btkc_mode_store", BufA(buf), buf.val, r.ret,
                                LED_UNSET, NoSched)
        /\ offs' = 0
        /\ UNCHANGED <<btkc_timeout, touched, work_pc>>
    /\ UNCHANGED <<exit_pc, threads>>

\* does btkc_timeout_store accept the parsed value
timeout_valid(val) ==
    UnsignedGE(val, TIMEOUT_MIN) /\ UnsignedLE(val, TIMEOUT_MAX)

\* a migration that takes 30 for milliseconds
timeout_stored_lt30(val) ==
    IF val < 30 THEN val * 1000 ELSE val

\* no migration from seconds to milliseconds
timeout_stored_noscale(val) == val

\* lines 244-248: the value btkc_timeout_store leaves in btkc_timeout
timeout_stored(val) ==
    IF val <= 30 THEN val * 1000 ELSE val

btkc_timeout_store ==
    /\ exit_pc = "loaded"
    /\ \E buf \in TimeoutBufs :
        LET r == kstrtoint(buf) IN
        /\ IF r.ret = 0 /\ timeout_valid(r.val)
           THEN /\ btkc_timeout' = timeout_stored(r.val)
                /\ led_work' = cancel_delayed_work(led_work)
                /\ button_backlight' = LED_OFF
                /\ call' = Call("btkc_timeout_store", BufA(buf), buf.val,
                                r.ret, LED_OFF, Cancelled)
           ELSE /\ UNCHANGED <<btkc_timeout, led_work, button_backlight>>
                /\ call' = Call("btkc_timeout_store", BufA(buf), buf.val,
                                r.ret, LED_UNSET, NoSched)
        /\ offs' = 0
        /\ UNCHANGED <<btkc_mode, touched, work_pc>>
    /\ UNCHANGED <<exit_pc, threads>>

-----------------------------------------------------------------------------
(* Module unload *)

\* lines 327-331: the sysfs group is removed, then cancel_delayed_work
btk_control_exit_cancel ==
    /\ exit_pc = "loaded"
    /\ led_work' = cancel_delayed_work(led_work)
    /\ exit_pc' = "line332"
    /\ call' = Call("btk_control_exit", 0, 0, 0, LED_UNSET, Cancelled)
    /\ offs' = 0
    /\ UNCHANGED <<btkc_mode, btkc_timeout, touched, work_pc,
                   button_backlight, threads>>

\* lines 332-335: flush_scheduled_work returns once led_work_func does not
\* run, then the notifier is unregistered
btk_control_exit_flush ==
    /\ exit_pc = "line332"
    /\ work_pc = "idle"
    /\ exit_pc' = "unloaded"
    /\ UNCHANGED <<btkc_mode, btkc_timeout, touched, led_work, work_pc,
                   button_backlight, offs, call, threads>>

-----------------------------------------------------------------------------
Next ==
    \/ led_work_start
    \/ led_work_off
    \/ led_work_cancel
    \/ fb_notifier_callback
    \/ btkc_touch_start
    \/ btkc_touch_stop
    \/ btkc_touch_button
    \/ btkc_led_set
    \/ btkc_mode_store
    \/ btkc_timeout_store
    \/ btk_control_exit_cancel
    \/ btk_control_exit_flush

Spec == Init /\ [][Next]_vars

-----------------------------------------------------------------------------
(* The touch functions, statement by statement *)

\* btkc_touch_start is entered; line 127: touched = 1
touch_start_127 ==
    /\ exit_pc # "unloaded"
    /\ touch_pc = "idle"
    /\ touched' = 1
    /\ touch_pc' = "start130"
    /\ call' = Call("btkc_touch_start", 0, 0, 0, LED_UNSET, NoSched)
    /\ offs' = 0
    /\ UNCHANGED <<btkc_mode, btkc_timeout, led_work, work_pc,
                   button_backlight, exit_pc, store_pc, store_val>>

\* line 130: if (btkc_mode == MODE_TOUCHKEY_DISP)
touch_start_130 ==
    /\ touch_pc = "start130"
    /\ touch_pc' = IF btkc_mode = MODE_TOUCHKEY_DISP THEN "start132" ELSE "idle"
    /\ UNCHANGED <<btkc_mode, btkc_timeout, touched, led_work, work_pc,
                   button_backlight, offs, call, exit_pc, store_pc,
                   store_val>>

\* line 132: qpnp_boeffla_set_button_backlight(LED_ON)
touch_start_132 ==
    /\ touch_pc = "start132"
    /\ button_backlight' = LED_ON
    /\ touch_pc' = "start133"
    /\ UNCHANGED <<btkc_mode, btkc_timeout, touched, led_work, work_pc, offs,
                   call, exit_pc, store_pc, store_val>>

\* line 133: cancel_delayed_work(&led_work)
touch_start_133 ==
    /\ touch_pc = "start133"
    /\ led_work' = cancel_delayed_work(led_work)
    /\ touch_pc' = "idle"
    /\ UNCHANGED <<btkc_mode, btkc_timeout, touched, work_pc,
                   button_backlight, offs, call, exit_pc, store_pc,
                   store_val>>

\* btkc_touch_stop is entered; line 142: touched = 0
touch_stop_142 ==
    /\ exit_pc # "unloaded"
    /\ touch_pc = "idle"
    /\ touched' = 0
    /\ touch_pc' = "stop145"
    /\ call' = Call("btkc_touch_stop", 0, 0, 0, LED_UNSET, NoSched)
    /\ offs' = 0
    /\ UNCHANGED <<btkc_mode, btkc_timeout, led_work, work_pc,
                   button_backlight, exit_pc, store_pc, store_val>>

\* line 145: if (btkc_mode == MODE_TOUCHKEY_DISP)
touch_stop_145 ==
    /\ touch_pc = "stop145"
    /\ touch_pc' = IF btkc_mode = MODE_TOUCHKEY_DISP THEN "stop147" ELSE "idle"
    /\ UNCHANGED <<btkc_mode, btkc_timeout, touched, led_work, work_pc,
                   button_backlight, offs, call, exit_pc, store_pc,
                   store_val>>

\* line 147: cancel_delayed_work(&led_work)
touch_stop_147 ==
    /\ touch_pc = "stop147"
    /\ led_work' = cancel_delayed_work(led_work)
    /\ touch_pc' = "stop148"
    /\ UNCHANGED <<btkc_mode, btkc_timeout, touched, work_pc,
                   button_backlight, offs, call, exit_pc, store_pc,
                   store_val>>

\* lines 148-149: schedule_delayed_work with btkc_timeout as it is now
touch_stop_148 ==
    /\ touch_pc = "stop148"
    /\ led_work' = schedule_delayed_work(led_work, btkc_timeout)
    /\ touch_pc' = "idle"
    /\ UNCHANGED <<btkc_mode, btkc_timeout, touched, work_pc,
                   button_backlight, offs, call, exit_pc, store_pc,
                   store_val>>

\* btkc_touch_button is entered; line 162: btkc_mode == MODE_TOUCHKEY_DISP ||
touch_button_162 ==
    /\ exit_pc # "unloaded"
    /\ touch_pc = "idle"
    /\ touch_pc' = IF btkc_mode = MODE_TOUCHKEY_DISP THEN "button165" ELSE "button163"
    /\ call' = Call("btkc_touch_button", 0, 0, 0, LED_UNSET, NoSched)
    /\ offs' = 0
    /\ UNCHANGED <<btkc_mode, btkc_timeout, touched, led_work, work_pc,
                   button_backlight, exit_pc, store_pc, store_val>>

\* line 163: (btkc_mode == MODE_TOUCHKEY_ONLY && btkc_timeout)
touch_button_163 ==
    /\ touch_pc = "button163"
    /\ touch_pc' = IF btkc_mode = MODE_TOUCHKEY_ONLY /\ btkc_timeout # 0
                    THEN "button165" ELSE "idle"
    /\ UNCHANGED <<btkc_mode, btkc_timeout, touched, led_work, work_pc,
                   button_backlight, offs, call, exit_pc, store_pc,
                   store_val>>

\* line 165: qpnp_boeffla_set_button_backlight(LED_ON)
touch_button_165 ==
    /\ touch_pc = "button165"
    /\ button_backlight' = LED_ON
    /\ touch_pc' = "button167"
    /\ UNCHANGED <<btkc_mode, btkc_timeout, touched, led_work, work_pc, offs,
                   call, exit_pc, store_pc, store_val>>

\* line 167: cancel_delayed_work(&led_work)
touch_button_167 ==
    /\ touch_pc = "button167"
    /\ led_work' = cancel_delayed_work(led_work)
    /\ touch_pc' = "button168"
    /\ UNCHANGED <<btkc_mode, btkc_timeout, touched, work_pc,
                   button_backlight, offs, call, exit_pc, store_pc,
                   store_val>>

\* lines 168-169: schedule_delayed_work with btkc_timeout as it is now
touch_button_168 ==
    /\ touch_pc = "button168"
    /\ led_work' = schedule_delayed_work(led_work, btkc_timeout)
    /\ touch_pc' = "idle"
    /\ UNCHANGED <<btkc_mode, btkc_timeout, touched, work_pc,
                   button_backlight, offs, call, exit_pc, store_pc,
                   store_val>>

-----------------------------------------------------------------------------
(* The sysfs stores, statement by statement *)

\* btkc_mode_store is entered; lines 207-212 parse buf into val and test it
mode_store_207 ==
    /\ exit_pc = "loaded"
    /\ store_pc = "idle"
    /\ \E buf \in ModeBufs :
        LET r == kstrtoint(buf) IN
        /\ IF r.ret = 0 /\ mode_valid(r.val)
           THEN store_pc' = "mode213" /\ store_val' = r.val
           ELSE UNCHANGED <<store_pc, store_val>>
        /\ call' = Call("btkc_mode_store", BufA(buf), buf.val, r.ret,
                        LED_UNSET, NoSched)
    /\ offs' = 0
    /\ UNCHANGED <<btkc_mode, btkc_timeout, touched, led_work, work_pc,
                   button_backlight, exit_pc, touch_pc>>

\* line 213: btkc_mode = val
mode_store_213 ==
    /\ store_pc = "mode213"
    /\ btkc_mode' = store_val
    /\ store_pc' = "mode216"
    /\ UNCHANGED <<btkc_timeout, touched, led_work, work_pc,
                   button_backlight, offs, call, exit_pc, touch_pc,
                   store_val>>

\* line 216: cancel_delayed_work(&led_work)
mode_store_216 ==
    /\ store_pc = "mode216"
    /\ led_work' = cancel_delayed_work(led_work)
    /\ store_pc' = "mode217"
    /\ UNCHANGED <<btkc_mode, btkc_timeout, touched, work_pc,
                   button_backlight, offs, call, exit_pc, touch_pc,
                   store_val>>

\* line 217: qpnp_boeffla_set_button_backlight(LED_OFF), and return
mode_store_217 ==
    /\ store_pc = "mode217"
    /\ button_backlight' = LED_OFF
    /\ store_pc' = "idle"
    /\ store_val' = 0
    /\ UNCHANGED <<btkc_mode, btkc_timeout, touched, led_work, work_pc, offs,
                   call, exit_pc, touch_pc>>

\* btkc_timeout_store is entered; lines 238-243 parse buf into val and test it
timeout_store_238 ==
    /\ exit_pc = "loaded"
    /\ store_pc = "idle"
    /\ \E buf \in ConcTimeoutBufs :
        LET r == kstrtoint(buf) IN
        /\ IF r.ret = 0 /\ timeout_valid(r.val)
           THEN store_pc' = "timeout244" /\ store_val' = r.val
           ELSE UNCHANGED <<store_pc, store_val>>
        /\ call' = Call("btkc_timeout_store", BufA(buf), buf.val, r.ret,
                        LED_UNSET, NoSched)
    /\ offs' = 0
    /\ UNCHANGED <<btkc_mode, btkc_timeout, touched, led_work, work_pc,
                   button_backlight, exit_pc, touch_pc>>

\* line 244: btkc_timeout = val
timeout_store_244 ==
    /\ store_pc = "timeout244"
    /\ btkc_timeout' = store_val
    /\ store_pc' = "timeout247"
    /\ UNCHANGED <<btkc_mode, touched, led_work, work_pc, button_backlight,
                   offs, call, exit_pc, touch_pc, store_val>>

\* lines 247-248: if (btkc_timeout <= 30) btkc_timeout = btkc_timeout * 1000
timeout_store_247 ==
    /\ store_pc = "timeout247"
    /\ btkc_timeout' = timeout_stored(btkc_timeout)
    /\ store_pc' = "timeout251"
    /\ UNCHANGED <<btkc_mode, touched, led_work, work_pc, button_backlight,
                   offs, call, exit_pc, touch_pc, store_val>>

\* line 251: cancel_delayed_work(&led_work)
timeout_store_251 ==
    /\ store_pc = "timeout251"
    /\ led_work' = cancel_delayed_work(led_work)
    /\ store_pc' = "timeout252"
    /\ UNCHANGED <<btkc_mode, btkc_timeout, touched, work_pc,
                   button_backlight, offs, call, exit_pc, touch_pc,
                   store_val>>

\* line 252: qpnp_boeffla_set_button_backlight(LED_OFF), and return
timeout_store_252 ==
    /\ store_pc = "timeout252"
    /\ button_backlight' = LED_OFF
    /\ store_pc' = "idle"
    /\ store_val' = 0
    /\ UNCHANGED <<btkc_mode, btkc_timeout, touched, led_work, work_pc, offs,
                   call, exit_pc, touch_pc>>

-----------------------------------------------------------------------------
\* the worker, the notifier and the hook as before; the touch functions and
\* the sysfs stores interleave statement by statement
NextConc ==
    \/ led_work_start
    \/ led_work_off
    \/ led_work_cancel
    \/ fb_notifier_callback
    \/ btkc_led_set
    \/ touch_start_127
    \/ touch_start_130
    \/ touch_start_132
    \/ touch_start_133
    \/ touch_stop_142
    \/ touch_stop_145
    \/ touch_stop_147
    \/ touch_stop_148
    \/ touch_button_162
    \/ touch_button_163
    \/ touch_button_165
    \/ touch_button_167
    \/ touch_button_168
    \/ mode_store_207
    \/ mode_store_213
    \/ mode_store_216
    \/ mode_store_217
    \/ timeout_store_238
    \/ timeout_store_244
    \/ timeout_store_247
    \/ timeout_store_251
    \/ timeout_store_252

SpecConc == Init /\ [][NextConc]_vars

-----------------------------------------------------------------------------
(* Properties *)

\* a step that is a call of the entry point fn
IsCall(fn) == call' # call /\ call'.fn = fn

\* C1: in every reachable state at most one deferred-off timer is armed on
\* led_work, whatever the sequence of touch, button, unblank, sysfs and
\* timer events was.
C1_AtMostOneTimer == Len(led_work) <= 1

\* a touch stop or button press found a timer armed and left one armed
C1_Witness ==
    /\ call.fn \in {"btkc_touch_stop", "btkc_touch_button"}
    /\ call.sched = Armed
    /\ call.pend = 1
    /\ Len(led_work) = 1

\* C2: btkc_led_set(val) returns val exactly when btkc_mode is
\* MODE_TOUCHKEY_ONLY and btkc_timeout is 0, and -EPERM otherwise; the call
\* changes neither mode, timeout, touched, the timer nor the backlight.
C2_LedSetPermitsOnlyRomControl ==
    [][IsCall("btkc_led_set") =>
        /\ call'.ret = IF btkc_mode = MODE_TOUCHKEY_ONLY /\ btkc_timeout = 0
                        THEN call'.a ELSE 0 - EPERM
        /\ call'.cmd = LED_UNSET
        /\ call'.sched = NoSched
        /\ UNCHANGED <<btkc_mode, btkc_timeout, touched, led_work, work_pc,
                       button_backlight>>]_vars

\* the ROM asks for LED_ON while a kernel timer of touchkey-only mode runs
C2_Witness ==
    /\ call.fn = "btkc_led_set"
    /\ call.a = LED_ON
    /\ call.ret = 0 - EPERM
    /\ btkc_mode = MODE_TOUCHKEY_ONLY
    /\ btkc_timeout = 1000
    /\ led_work = <<1000>>

\* C3: btkc_touch_button switches the LED on and leaves exactly one timer
\* armed for btkc_timeout iff the mode is touchkey+display, or touchkey-only
\* with a timeout other than 0; otherwise it sends no command and neither
\* arms nor cancels a timer.
C3_TouchButton ==
    [][IsCall("btkc_touch_button") =>
        IF \/ btkc_mode = MODE_TOUCHKEY_DISP
           \/ (btkc_mode = MODE_TOUCHKEY_ONLY /\ btkc_timeout # 0)
        THEN /\ call'.cmd = LED_ON
             /\ button_backlight' = LED_ON
             /\ led_work' = <<btkc_timeout>>
        ELSE /\ call'.cmd = LED_UNSET
             /\ call'.sched = NoSched
             /\ UNCHANGED <<button_backlight, led_work>>]_vars

\* a button press in touchkey-only mode re-armed the kernel timer
C3_Witness ==
    /\ call.fn = "btkc_touch_button"
    /\ btkc_mode = MODE_TOUCHKEY_ONLY
    /\ btkc_timeout = 1000
    /\ call.pend = 1
    /\ button_backlight = LED_ON
    /\ led_work = <<1000>>

C5_Original ==
    (call.fn = "btkc_touch_stop" /\ btkc_mode = MODE_TOUCHKEY_DISP) =>
        /\ Len(led_work) <= 1
        /\ offs <= 1
        /\ (work_pc = "idle" /\ offs = 0) => led_work = <<btkc_timeout>>
        /\ (work_pc = "idle" /\ offs = 1) => led_work = << >>

\* a call of fb_notifier_callback for FB_EVENT_BLANK with FB_BLANK_UNBLANK
IsUnblank(c) ==
    c.fn = "fb_notifier_callback" /\ c.a = FB_EVENT_BLANK
        /\ c.b = FB_BLANK_UNBLANK

\* C6: the unblank notification sends LED_OFF and cancels the armed timer;
\* until the next call no timer is armed, and the only LED_OFF sent after
\* it comes from a led_work_func that was already running, never from the
\* timer it cancelled.
C6_ScreenUnblank ==
    IsUnblank(call) =>
        /\ call.cmd = LED_OFF
        /\ button_backlight = LED_OFF
        /\ led_work = << >>
        /\ offs <= 1
        /\ (offs = 1 => call.run = "line92")

\* the display was unblanked with the LED on and a timer armed
C6_Witness ==
    /\ IsUnblank(call)
    /\ call.led = LED_ON
    /\ call.pend = 1
    /\ call.run = "idle"
    /\ button_backlight = LED_OFF
    /\ led_work = << >>

\* the last call was a write to btkc_mode or btkc_timeout of a value the
\* attribute takes
IsGoodWrite(c) ==
    \/ c.fn = "btkc_mode_store" /\ c.a = 1 /\ c.b \in 0 .. 2
    \/ c.fn = "btkc_timeout_store" /\ c.a = 1 /\ c.b \in 0 .. 30000

\* C7: after a successful write of btkc_mode or btkc_timeout the last
\* command sent to the backlight is LED_OFF and no timer is armed.
C7_WriteResetsLed ==
    IsGoodWrite(call) =>
        /\ call.cmd = LED_OFF
        /\ button_backlight = LED_OFF
        /\ led_work = << >>

\* a write found the LED on and a timer armed
C7_Witness ==
    /\ IsGoodWrite(call)
    /\ call.led = LED_ON
    /\ call.pend = 1
    /\ button_backlight = LED_OFF
    /\ led_work = << >>

\* C8: a write of a number outside 0..2 to btkc_mode, or of a negative
\* number or one above 30000 to btkc_timeout, stores nothing, cancels no
\* timer and sends no command.
C8_BadWriteIgnored ==
    [][(\/ IsCall("btkc_mode_store") /\ call'.a = 1 /\ call'.b \notin 0 .. 2
        \/ IsCall("btkc_timeout_store") /\ call'.a = 1
                /\ (call'.b < 0 \/ call'.b > 30000))
       => /\ call'.cmd = LED_UNSET
          /\ call'.sched = NoSched
          /\ UNCHANGED <<btkc_mode, btkc_timeout, touched, led_work,
                         work_pc, button_backlight>>]_vars

\* -1 was written to btkc_timeout while the LED was on with a timer armed
C8_Witness ==
    /\ call.fn = "btkc_timeout_store"
    /\ call.a = 1
    /\ call.b = 0 - 1
    /\ call.pend = 1
    /\ button_backlight = LED_ON
    /\ led_work = <<btkc_timeout>>

\* C9: a write of v to btkc_timeout stores v * 1000 for v in 1..30 and v
\* itself for v = 0 and v in 1000..30000, so s and s * 1000 store the same.
C9_TimeoutMigration ==
    (call.fn = "btkc_timeout_store" /\ call.a = 1) =>
        /\ call.b \in 1 .. 30 => btkc_timeout = call.b * 1000
        /\ (call.b = 0 \/ call.b \in 1000 .. 30000) => btkc_timeout = call.b

\* 5 was written and 5000 is stored
C9_Witness ==
    /\ call.fn = "btkc_timeout_store"
    /\ call.a = 1
    /\ call.b = 5
    /\ btkc_timeout = 5000

C11_OffModeDark ==
    btkc_mode = MODE_OFF =>
        /\ button_backlight = LED_OFF
        /\ call.cmd # LED_ON
        /\ led_work = << >>
        /\ call.fn = "btkc_led_set" => call.ret = 0 - EPERM

\* a touch button press in MODE_OFF with a kernel timeout left the LED off
C11_Witness ==
    /\ btkc_mode = MODE_OFF
    /\ call.fn = "btkc_touch_button"
    /\ btkc_timeout = 1000
    /\ touched = 1
    /\ button_backlight = LED_OFF

\* C12 as stated: once btk_control_exit has returned (and nothing was called
\* since it began) the LED is not left on and no timer is armed.
C12_Original ==
    (exit_pc = "unloaded" /\ call.fn = "btk_control_exit") =>
        /\ button_backlight # LED_ON
        /\ led_work = << >>

\* C13 as stated: with btkc_timeout 0 a call arms a timer only if it is
\* btkc_touch_stop in touchkey+display mode.
C13_Original ==
    [][(call' # call /\ btkc_timeout = 0 /\ call'.sched = Armed)
       => (call'.fn = "btkc_touch_stop"
            /\ btkc_mode = MODE_TOUCHKEY_DISP)]_vars

\* C13 amended: with btkc_timeout 0 a call arms a timer (of 0 ms) exactly
\* when it is btkc_touch_stop or btkc_touch_button in touchkey+display
\* mode; in the other modes no call arms one.
C13_ZeroTimeoutArming ==
    [][(call' # call /\ btkc_timeout = 0) =>
        IF btkc_mode = MODE_TOUCHKEY_DISP
              /\ call'.fn \in {"btkc_touch_stop", "btkc_touch_button"}
        THEN led_work' = <<0>>
        ELSE /\ call'.sched # Armed
             /\ (led_work' = << >> \/ led_work' = led_work)
             /\ (btkc_mode # MODE_TOUCHKEY_DISP => led_work' = << >>)]_vars

\* a touch button press in touchkey+display mode armed a timer of 0 ms
C13_Witness ==
    /\ call.fn = "btkc_touch_button"
    /\ btkc_mode = MODE_TOUCHKEY_DISP
    /\ btkc_timeout = 0
    /\ button_backlight = LED_ON
    /\ led_work = <<0>>

\* C14 as stated: in touchkey+display mode a btkc_touch_button that follows
\* btkc_touch_start (LED on, touch not stopped) leaves the timer as it was.
C14_Original ==
    [][(/\ IsCall("btkc_touch_button")
        /\ call.fn = "btkc_touch_start"
        /\ btkc_mode = MODE_TOUCHKEY_DISP
        /\ touched = 1
        /\ button_backlight = LED_ON)
       => led_work' = led_work]_vars

\* C14 amended: in touchkey+display mode a btkc_touch_button that follows
\* btkc_touch_start finds no timer armed, sends LED_ON again and arms one
\* timer for btkc_timeout; touched stays 1.
C14_TouchButtonRearms ==
    [][(/\ IsCall("btkc_touch_button")
        /\ call.fn = "btkc_touch_start"
        /\ btkc_mode = MODE_TOUCHKEY_DISP)
       => /\ led_work = << >>
          /\ led_work' = <<btkc_timeout>>
          /\ button_backlight' = LED_ON
          /\ touched' = 1]_vars

\* a button press during a display touch armed a timer
C14_Witness ==
    /\ call.fn = "btkc_touch_button"
    /\ btkc_mode = MODE_TOUCHKEY_DISP
    /\ btkc_timeout = 1000
    /\ touched = 1
    /\ call.led = LED_ON
    /\ call.pend = 0
    /\ led_work = <<1000>>

\* C15 as stated: when btkc_touch_start or btkc_touch_button has sent
\* LED_ON and has not yet called cancel_delayed_work, the timer that was
\* armed before is gone already, so it does not elapse and start
\* led_work_func there.
C15_Original ==
    [][(touch_pc \in {"start133", "button167"})
       => ~(work_pc = "idle" /\ work_pc' = "line92")]_vars

\* C16 as stated, for a write of MODE_OFF: whichever way the store and the
\* touch functions are ordered, once they have returned with btkc_mode
\* MODE_OFF the LED is not commanded on and no timer is armed.
C16_Original ==
    (btkc_mode = MODE_OFF /\ touch_pc = "idle" /\ store_pc = "idle") =>
        /\ button_backlight # LED_ON
        /\ led_work = << >>

\* C17 as stated: a timer is armed for a value btkc_timeout_store leaves
\* behind (0 or above 30), never for the unscaled seconds 1..30 that line
\* 244 stores before line 248 scales them.
C17_Original ==
    \A i \in 1 .. Len(led_work) : led_work[i] \notin 1 .. 30

\* C18 as stated: a led_work_func that already runs sends at most a
\* redundant LED_OFF; its line 93 removes no timer, as any timer armed
\* then was armed by a call made after the callback started.
C18_Original ==
    [][(work_pc = "line93" /\ work_pc' = "idle")
       => led_work' = led_work]_vars

\* C19 as stated, as the state it excludes: in touchkey-only mode with a
\* kernel timeout the LED is never on with no timer armed and no
\* led_work_func about to switch it off.
C19_Original ==
    (/\ exit_pc = "loaded"
     /\ btkc_mode = MODE_TOUCHKEY_ONLY
     /\ btkc_timeout # 0
     /\ button_backlight = LED_ON)
    => (led_work # << >> \/ work_pc = "line92")

\* C20: outside touchkey+display mode btkc_touch_start and btkc_touch_stop
\* only set touched (to 1 and 0); in every mode nothing else changes
\* touched.
C20_TouchedOnly ==
    [][/\ IsCall("btkc_touch_start") => touched' = 1
       /\ IsCall("btkc_touch_stop") => touched' = 0
       /\ ((IsCall("btkc_touch_start") \/ IsCall("btkc_touch_stop"))
                /\ btkc_mode # MODE_TOUCHKEY_DISP)
           => /\ call'.cmd = LED_UNSET
              /\ call'.sched = NoSched
              /\ UNCHANGED <<btkc_mode, btkc_timeout, led_work, work_pc,
                             button_backlight>>
       /\ ~(IsCall("btkc_touch_start") \/ IsCall("btkc_touch_stop"))
           => touched' = touched]_vars

\* a display touch began in touchkey-only mode while the LED was on with a
\* timer armed, and both are as they were
C20_Witness ==
    /\ call.fn = "btkc_touch_start"
    /\ btkc_mode = MODE_TOUCHKEY_ONLY
    /\ touched = 1
    /\ call.led = LED_ON
    /\ call.pend = 1
    /\ button_backlight = LED_ON
    /\ led_work = <<btkc_timeout>>

=============================================================================
